---- MODULE Spec2Model ----
(***************************************************************************)
(* Model of src/server.js: the in-memory lexicon evolution engine          *)
(* (evolveStep), its seeding, and the remote synchronisation (syncFromPi). *)
(*                                                                         *)
(* Surface forms are sequences of one-character strings.  Fitness is kept  *)
(* in twentieths (1 unit = 0.05), the grid on which every fitness constant *)
(* of the source lies (0.05, 0.1, 0.2, 0.5, 1.0, 2.0); the rounding of     *)
(* binary floating point is not modelled.                                  *)
(* Every value of Math.random() is an input, kept in hundredths (0..99)    *)
(* and drawn from small explicit sets.                                     *)
(***************************************************************************)
EXTENDS Integers, Sequences, FiniteSets, TLC

VARIABLES state, ret, last, calls, mode, sync, call

vars == <<state, ret, last, calls, mode, sync, call>>

(***************************************************************************)
(* Bounds of the exploration.                                              *)
(***************************************************************************)
\* evolveStep calls explored with free draws
MaxGen == 2
\* evolveStep calls of the long run (pinned draws) that precede the free ones
WarmLen == 166
\* synchronisation attempts explored
MaxSync == 2
\* evolveStep calls explored beside the synchroniser
MaxSyncGen == 1
\* evolveStep calls explored iteration by iteration of the birth loop
MaxLoopGen == 2
\* evolveStep calls explored from the lexicons a snapshot can give
MaxSnapGen == 1

(***************************************************************************)
(* Program constants.                                                      *)
(***************************************************************************)
EXTINCT_RING == 50
SHIFTS_RING == 30
EVENTS_RING == 200
SEED_DRAWS == 10
MIN_COMPOUND_WORDS == 4

\* fitness constants, in twentieths
FIT_SEED == 20
FIT_BIRTH == 10
FIT_MAX == 40
FIT_USE == 2
FIT_DECAY == 1
FIT_UNUSED == 4
\* age above which a never-used word decays faster
GRACE_AGE == 3

\* probability thresholds, in hundredths
P_BIRTH == 70
P_SHIFT == 10
P_SUBST == 15
P_COMPOUND == 15
P_ONSET == 20
P_CODA == 70

(***************************************************************************)
(* Inventories and catalog.                                                *)
(***************************************************************************)
CONSONANTS == <<"k", "n", "t", "s", "m", "r", "h", "p", "l", "w", "v", "z">>
VOWELS == <<"a", "i", "u", "e", "o">>
C_WEIGHTS == <<12, 15, 10, 8, 12, 8, 6, 5, 7, 4, 3, 2>>
V_WEIGHTS == <<20, 15, 10, 12, 8>>
CODAS == << <<"n">>, <<"m">>, << >> >>
SYL_WEIGHTS == <<15, 50, 35>>

\* the keys of SOUND_SHIFTS
ShiftKeys == {"k", "t", "p", "s", "h", "n", "r"}

\* SOUND_SHIFTS[c]: the replacement phones, each a sequence of characters
SOUND_SHIFTS(c) ==
  CASE c = "k" -> << <<"g">>, <<"h">> >>
    [] c = "t" -> << <<"d">>, <<"s">> >>
    [] c = "p" -> << <<"b">>, <<"f">> >>
    [] c = "s" -> << <<"z">>, <<"s", "h">> >>
    [] c = "h" -> << << >>, <<"w">> >>
    [] c = "n" -> << <<"m">>, <<"n", "g">> >>
    [] c = "r" -> << <<"l">>, << >> >>

CONCEPTS ==
  << [cat |-> "natural", concepts |->
        <<"water", "fire", "earth", "wind", "stone", "tree", "river", "mountain",
          "sun", "moon", "star", "rain", "snow", "flower", "seed", "sky", "ocean",
          "cloud">>],
     [cat |-> "abstract", concepts |->
        <<"time", "space", "change", "pattern", "boundary", "flow", "balance",
          "emergence", "connection", "threshold", "cycle", "wave", "order",
          "chaos">>],
     [cat |-> "quality", concepts |->
        <<"big", "small", "fast", "slow", "bright", "dark", "warm", "cold",
          "old", "new", "near", "far", "deep", "high", "soft", "hard">>],
     [cat |-> "action", concepts |->
        <<"move", "grow", "break", "join", "give", "take", "make", "find",
          "hold", "release", "begin", "end", "turn", "fall", "rise", "flow">>],
     [cat |-> "relation", concepts |->
        <<"with", "from", "toward", "through", "between", "within", "beyond",
          "around">>],
     [cat |-> "being", concepts |->
        <<"self", "other", "many", "one", "all", "none", "part", "whole">>] >>

RECURSIVE Flatten(_, _)
Flatten(groups, i) ==
  IF i > Len(groups) THEN << >> ELSE groups[i].concepts \o Flatten(groups, i + 1)

\* ALL_CONCEPTS: the concepts of every category, in order ("flow" twice)
ALL_CONCEPTS == Flatten(CONCEPTS, 1)

RECURSIVE CatLookup(_, _)
CatLookup(c, i) ==
  IF \E j \in DOMAIN CONCEPTS[i].concepts : CONCEPTS[i].concepts[j] = c
  THEN CONCEPTS[i].cat
  ELSE CatLookup(c, i - 1)

\* CONCEPT_CATS[c]: the last category that lists c (a later assignment
\* overwrites an earlier one)
CONCEPT_CATS(c) == CatLookup(c, Len(CONCEPTS))

(***************************************************************************)
(* Random source and the phonology generator.                              *)
(***************************************************************************)
\* Math.floor(Math.random() * n) for Math.random() = r / 100
RandIndex(r, n) == (r * n) \div 100

RECURSIVE SumSeq(_, _)
SumSeq(s, i) == IF i > Len(s) THEN 0 ELSE s[i] + SumSeq(s, i + 1)

\* the loop of weightedChoice and of genWord: x100 is 100 * r for the r of the
\* source, i the index (from 1), cum the running sum
RECURSIVE WeightedLoop(_, _, _, _)
WeightedLoop(weights, x100, i, cum) ==
  IF i > Len(weights) THEN 0
  ELSE IF x100 <= 100 * (cum + weights[i]) THEN i
       ELSE WeightedLoop(weights, x100, i + 1, cum + weights[i])

\* weightedChoice(items, weights) with Math.random() = r / 100
weightedChoice(items, weights, r) ==
  LET i == WeightedLoop(weights, r * SumSeq(weights, 1), 1, 0)
  IN  IF i = 0 THEN items[Len(items)] ELSE items[i]

\* genSyllable() for the draws d = [onset, onsetPick, nucleus, coda, codaPick]
genSyllable(d) ==
  LET onset == IF d.onset > P_ONSET
               THEN <<weightedChoice(CONSONANTS, C_WEIGHTS, d.onsetPick)>>
               ELSE << >>
      nucleus == <<weightedChoice(VOWELS, V_WEIGHTS, d.nucleus)>>
      coda == IF d.coda > P_CODA THEN CODAS[RandIndex(d.codaPick, 3) + 1] ELSE << >>
  IN  onset \o nucleus \o coda

RECURSIVE JoinSyllables(_, _, _)
JoinSyllables(syls, i, n) ==
  IF i > n THEN << >> ELSE genSyllable(syls[i]) \o JoinSyllables(syls, i + 1, n)

\* genWord() for the draws d = [n, syls]: d.n picks the syllable count, d.syls
\* are the draws of the syllables (the draw of the unused `syls` is left out)
genWord(d) ==
  LET i == WeightedLoop(SYL_WEIGHTS, d.n * 100, 1, 0)
      n == IF i = 0 THEN 2 ELSE i
  IN  JoinSyllables(d.syls, 1, n)

(***************************************************************************)
(* Living words and compounds: JavaScript objects, i.e. maps that keep the *)
(* insertion order of their keys.  Each is a sequence of entries whose     *)
(* `word` field is the key.                                                *)
(***************************************************************************)
Keys(m) == {m[i].word : i \in DOMAIN m}
KeySeq(m) == [i \in DOMAIN m |-> m[i].word]
Has(m, w) == \E i \in DOMAIN m : m[i].word = w
Get(m, w) == m[CHOOSE i \in DOMAIN m : m[i].word = w]
\* m[e.word] = e: a new key goes last, an existing key keeps its place
Put(m, e) ==
  IF Has(m, e.word)
  THEN [i \in DOMAIN m |-> IF m[i].word = e.word THEN e ELSE m[i]]
  ELSE Append(m, e)
\* delete m[w]
Delete(m, w) == SelectSeq(m, LAMBDA e : e.word # w)

Min(a, b) == IF a < b THEN a ELSE b
Max(a, b) == IF a > b THEN a ELSE b

\* list.slice(-n)
LastN(s, n) == IF Len(s) > n THEN SubSeq(s, Len(s) - n + 1, Len(s)) ELSE s
\* str.slice(0, n) and str.slice(n)
SliceTo(s, n) == SubSeq(s, 1, Min(n, Len(s)))
SliceFrom(s, n) == SubSeq(s, n + 1, Len(s))

\* RingPush that never trims
RingPush_unbounded(list, e, cap) == Append(list, e)

\* list.push(e), then list = list.slice(-cap) when longer than cap
RingPush(list, e, cap) ==
  LET pushed == Append(list, e)
  IN  IF Len(pushed) > cap THEN LastN(pushed, cap) ELSE pushed

(***************************************************************************)
(* evolveStep, one operator per numbered step.  X = [st, ev]: the state    *)
(* object and the handler's local `events`.  D holds the handler's draws:  *)
(*   birth, concept, word (the draws of genWord, one per loop iteration),  *)
(*   shuffle (the permutation the random sort leaves: a rotation),         *)
(*   shift, target, subs (gate and pick of each shiftable character),      *)
(*   compound, c1, c2.                                                     *)
(***************************************************************************)
\* the fields of the state object that may be missing (state.absent names the
\* missing ones; a missing field holds Undefined or UndefinedNum)
Collections == {"words", "compounds", "extinct", "sound_shifts", "events"}
Counters == {"total_generated", "total_extinct", "total_compounds", "total_shifts"}
Undefined == <<[word |-> <<"undefined">>]>>
UndefinedNum == -1
ZeroStats ==
  [total_generated |-> 0, total_extinct |-> 0, total_compounds |-> 0, total_shifts |-> 0]
UndefinedStats == [c \in Counters |-> UndefinedNum]

\* Normalize that leaves a missing total_shifts as it is
Normalize_noShifts(st) ==
  LET A == st.absent
      stats == IF "stats" \in A THEN ZeroStats ELSE st.stats
  IN  [st EXCEPT
         !.words = IF "words" \in A THEN << >> ELSE @,
         !.compounds = IF "compounds" \in A THEN << >> ELSE @,
         !.extinct = IF "extinct" \in A THEN << >> ELSE @,
         !.sound_shifts = IF "sound_shifts" \in A THEN << >> ELSE @,
         !.events = IF "events" \in A THEN << >> ELSE @,
         !.stats = [c \in Counters |->
                      IF c \in A /\ c # "total_shifts" /\ "stats" \notin A
                      THEN 0 ELSE stats[c]],
         !.absent = A \cap (IF "stats" \in A THEN {"generation"}
                            ELSE {"generation", "total_shifts"})]

\* lines 104-113: every missing collection becomes empty, missing stats and
\* every missing (or zero) counter become 0
Normalize(st) ==
  LET A == st.absent
      stats == IF "stats" \in A THEN ZeroStats ELSE st.stats
  IN  [st EXCEPT
         !.words = IF "words" \in A THEN << >> ELSE @,
         !.compounds = IF "compounds" \in A THEN << >> ELSE @,
         !.extinct = IF "extinct" \in A THEN << >> ELSE @,
         !.sound_shifts = IF "sound_shifts" \in A THEN << >> ELSE @,
         !.events = IF "events" \in A THEN << >> ELSE @,
         !.stats = [c \in Counters |->
                      IF c \in A /\ "stats" \notin A THEN 0 ELSE stats[c]],
         !.absent = A \cap {"generation"}]

\* Begin that leaves the generation as it is
Begin_same(st) ==
  LET n == Normalize(st)
  IN  [st |-> [n EXCEPT !.generation = IF "generation" \in n.absent THEN 0 ELSE @,
                        !.absent = @ \ {"generation"}],
       ev |-> << >>]

\* lines 104-117: the normalisation, then gen = (state.generation || 0) + 1
Begin(st) ==
  LET n == Normalize(st)
  IN  [st |-> [n EXCEPT !.generation = (IF "generation" \in n.absent THEN 0 ELSE @) + 1,
                        !.absent = @ \ {"generation"}],
       ev |-> << >>]

\* the iterations of `while (state.words[word]) word = genWord()` that the
\* draws D.word cover: the first form that is no living key
BirthTries(words, D) == {i \in DOMAIN D.word : ~Has(words, genWord(D.word[i]))}
BirthLoopExits(st, D) == D.birth >= P_BIRTH \/ BirthTries(st.words, D) # {}

\* Birth that draws the concept from the whole catalog
Birth_anyConcept(X, D) ==
  IF D.birth < P_BIRTH
  THEN
    LET st == X.st
        gen == st.generation
        concept == ALL_CONCEPTS[RandIndex(D.concept, Len(ALL_CONCEPTS)) + 1]
        tries == BirthTries(st.words, D)
        word == genWord(D.word[CHOOSE i \in tries : \A j \in tries : i <= j])
        entry == [word |-> word, meaning |-> concept, category |-> CONCEPT_CATS(concept),
                  born |-> gen, uses |-> 0, fitness |-> FIT_BIRTH, history |-> <<word>>]
    IN  [st |-> [st EXCEPT !.words = Put(st.words, entry),
                           !.stats.total_generated = @ + 1],
         ev |-> Append(X.ev, [type |-> "birth", gen |-> gen, word |-> word,
                              meaning |-> concept, category |-> CONCEPT_CATS(concept)])]
  ELSE X

\* 1. Birth
\* Birth that does not count the word in total_generated
Birth_uncounted(X, D) ==
  IF D.birth < P_BIRTH
  THEN
    LET st == X.st
        gen == st.generation
        covered == {st.words[i].meaning : i \in DOMAIN st.words}
        uncovered == SelectSeq(ALL_CONCEPTS, LAMBDA c : c \notin covered)
        concept == IF Len(uncovered) > 0
                   THEN uncovered[RandIndex(D.concept, Len(uncovered)) + 1]
                   ELSE ALL_CONCEPTS[RandIndex(D.concept, Len(ALL_CONCEPTS)) + 1]
        tries == BirthTries(st.words, D)
        word == genWord(D.word[CHOOSE i \in tries : \A j \in tries : i <= j])
        entry == [word |-> word, meaning |-> concept, category |-> CONCEPT_CATS(concept),
                  born |-> gen, uses |-> 0, fitness |-> FIT_BIRTH, history |-> <<word>>]
    IN  [st |-> [st EXCEPT !.words = Put(st.words, entry)],
         ev |-> Append(X.ev, [type |-> "birth", gen |-> gen, word |-> word,
                              meaning |-> concept, category |-> CONCEPT_CATS(concept)])]
  ELSE X

Birth(X, D) ==
  IF D.birth < P_BIRTH
  THEN
    LET st == X.st
        gen == st.generation
        covered == {st.words[i].meaning : i \in DOMAIN st.words}
        uncovered == SelectSeq(ALL_CONCEPTS, LAMBDA c : c \notin covered)
        concept == IF Len(uncovered) > 0
                   THEN uncovered[RandIndex(D.concept, Len(uncovered)) + 1]
                   ELSE ALL_CONCEPTS[RandIndex(D.concept, Len(ALL_CONCEPTS)) + 1]
        tries == BirthTries(st.words, D)
        word == genWord(D.word[CHOOSE i \in tries : \A j \in tries : i <= j])
        entry == [word |-> word, meaning |-> concept, category |-> CONCEPT_CATS(concept),
                  born |-> gen, uses |-> 0, fitness |-> FIT_BIRTH, history |-> <<word>>]
    IN  [st |-> [st EXCEPT !.words = Put(st.words, entry),
                           !.stats.total_generated = @ + 1],
         ev |-> Append(X.ev, [type |-> "birth", gen |-> gen, word |-> word,
                              meaning |-> concept, category |-> CONCEPT_CATS(concept)])]
  ELSE X

\* the permutation left by [...words].sort(() => Math.random() - 0.5)
Shuffled(words, k) ==
  LET n == Len(words)
  IN  [i \in 1..n |-> words[((i - 1 + k) % n) + 1]]

\* UsedWords that may select no word
UsedWords_floor(st, D) ==
  LET words == KeySeq(st.words)
      usedCount == Len(words) \div 3
      shuffled == Shuffled(words, D.shuffle)
  IN  {shuffled[i] : i \in 1..Min(usedCount, Len(shuffled))}

\* the words the usage step selects
UsedWords(st, D) ==
  LET words == KeySeq(st.words)
      usedCount == Max(1, Len(words) \div 3)
      shuffled == Shuffled(words, D.shuffle)
  IN  {shuffled[i] : i \in 1..Min(usedCount, Len(shuffled))}

\* Usage without the cap on fitness
Usage_noCap(X, D) ==
  LET used == UsedWords(X.st, D)
  IN  [X EXCEPT !.st.words =
         [i \in DOMAIN @ |->
            IF @[i].word \in used
            THEN [@[i] EXCEPT !.uses = @ + 1, !.fitness = @ + FIT_USE]
            ELSE @[i]]]

\* 2. Usage
Usage(X, D) ==
  LET used == UsedWords(X.st, D)
  IN  [X EXCEPT !.st.words =
         [i \in DOMAIN @ |->
            IF @[i].word \in used
            THEN [@[i] EXCEPT !.uses = @ + 1, !.fitness = Min(FIT_MAX, @ + FIT_USE)]
            ELSE @[i]]]

\* the decay of one word at generation gen
\* DecayWord without the faster decay of a never-used word
DecayWord_flat(d, gen) ==
  LET age == gen - d.born
  IN  IF age > 0 THEN [d EXCEPT !.fitness = @ - FIT_DECAY] ELSE d

DecayWord(d, gen) ==
  LET age == gen - d.born
  IN  IF age > 0
      THEN [d EXCEPT !.fitness =
              IF d.uses = 0 /\ age > GRACE_AGE THEN @ - FIT_DECAY - FIT_UNUSED
              ELSE @ - FIT_DECAY]
      ELSE d

\* 3. Decay
Decay(X) ==
  [X EXCEPT !.st.words = [i \in DOMAIN @ |-> DecayWord(@[i], X.st.generation)]]

\* ExtinctWord that puts its event before the others
ExtinctWord_first(X, w) ==
  LET st == X.st
      d == Get(st.words, w)
      gen == st.generation
  IN  IF d.fitness <= 0
      THEN [st |-> [st EXCEPT
                      !.extinct = RingPush(@, [word |-> w, meaning |-> d.meaning,
                                               born |-> d.born, died |-> gen,
                                               uses |-> d.uses], EXTINCT_RING),
                      !.stats.total_extinct = @ + 1,
                      !.words = Delete(@, w)],
            ev |-> <<[type |-> "extinct", gen |-> gen, word |-> w,
                      meaning |-> d.meaning]>> \o X.ev]
      ELSE X

\* ExtinctWord with the threshold fitness < 0
ExtinctWord_strict(X, w) ==
  LET st == X.st
      d == Get(st.words, w)
      gen == st.generation
  IN  IF d.fitness < 0
      THEN [st |-> [st EXCEPT
                      !.extinct = RingPush(@, [word |-> w, meaning |-> d.meaning,
                                               born |-> d.born, died |-> gen,
                                               uses |-> d.uses], EXTINCT_RING),
                      !.stats.total_extinct = @ + 1,
                      !.words = Delete(@, w)],
            ev |-> Append(X.ev, [type |-> "extinct", gen |-> gen, word |-> w,
                                 meaning |-> d.meaning])]
      ELSE X

\* one iteration of the extinction loop, for the key w
ExtinctWord(X, w) ==
  LET st == X.st
      d == Get(st.words, w)
      gen == st.generation
  IN  IF d.fitness <= 0
      THEN [st |-> [st EXCEPT
                      !.extinct = RingPush(@, [word |-> w, meaning |-> d.meaning,
                                               born |-> d.born, died |-> gen,
                                               uses |-> d.uses], EXTINCT_RING),
                      !.stats.total_extinct = @ + 1,
                      !.words = Delete(@, w)],
            ev |-> Append(X.ev, [type |-> "extinct", gen |-> gen, word |-> w,
                                 meaning |-> d.meaning])]
      ELSE X

RECURSIVE ExtinctLoop(_, _, _, _)
\* the iterations lo..hi of the loop over the keys, in order.  The range is
\* halved and X is read before descending, which keeps the evaluation shallow;
\* with no word left no iteration has an effect
ExtinctLoop(X, keys, lo, hi) ==
  IF lo > hi \/ X.st.words = << >> THEN X
  ELSE IF lo = hi THEN ExtinctWord(X, keys[lo])
  ELSE ExtinctLoop(ExtinctLoop(X, keys, lo, (lo + hi) \div 2), keys,
                   ((lo + hi) \div 2) + 1, hi)

\* 4. Extinction
Extinction(X) == ExtinctLoop(X, KeySeq(X.st.words), 1, Len(X.st.words))

\* the k-th shiftable character's draws; draws the list D.subs does not give
\* are no substitution
SubDraw(D, k) == IF k <= Len(D.subs) THEN D.subs[k] ELSE [gate |-> 99, pick |-> 0]

\* the loop over the characters of the target: R = [out, shifted, k], k the
\* number of draws taken so far
RECURSIVE ShiftChars(_, _, _, _)
ShiftChars(chars, i, D, R) ==
  IF i > Len(chars) THEN R
  ELSE IF chars[i] \in ShiftKeys
       THEN LET d == SubDraw(D, R.k + 1)
                opts == SOUND_SHIFTS(chars[i])
            IN  IF d.gate < P_SUBST
                THEN ShiftChars(chars, i + 1, D,
                       [out |-> R.out \o opts[RandIndex(d.pick, Len(opts)) + 1],
                        shifted |-> TRUE, k |-> R.k + 1])
                ELSE ShiftChars(chars, i + 1, D,
                       [R EXCEPT !.out = @ \o <<chars[i]>>, !.k = @ + 1])
       ELSE ShiftChars(chars, i + 1, D, [R EXCEPT !.out = @ \o <<chars[i]>>])

\* target and new form of the sound shift, and whether a substitution fired
ShiftPlan(st, D) ==
  LET keys == KeySeq(st.words)
      target == keys[RandIndex(D.target, Len(keys)) + 1]
      R == ShiftChars(target, 1, D, [out |-> << >>, shifted |-> FALSE, k |-> 0])
  IN  [target |-> target, newForm |-> R.out, shifted |-> R.shifted]

\* Rename that starts the history afresh
Rename_fresh(X, target, newForm) ==
  LET st == X.st
      gen == st.generation
      data == Get(st.words, target)
      moved == [data EXCEPT !.word = newForm, !.history = <<newForm>>]
  IN  [st |-> [st EXCEPT
                 !.words = Put(Delete(@, target), moved),
                 !.stats.total_shifts = @ + 1,
                 !.sound_shifts = RingPush(@, [gen |-> gen, from |-> target,
                                               to |-> newForm, meaning |-> data.meaning],
                                           SHIFTS_RING)],
       ev |-> Append(X.ev, [type |-> "shift", gen |-> gen, from |-> target,
                            to |-> newForm, meaning |-> data.meaning])]

\* Rename that leaves the old key in place
Rename_keepOld(X, target, newForm) ==
  LET st == X.st
      gen == st.generation
      data == Get(st.words, target)
      moved == [data EXCEPT !.word = newForm, !.history = Append(@, newForm)]
  IN  [st |-> [st EXCEPT
                 !.words = Put(@, moved),
                 !.stats.total_shifts = @ + 1,
                 !.sound_shifts = RingPush(@, [gen |-> gen, from |-> target,
                                               to |-> newForm, meaning |-> data.meaning],
                                           SHIFTS_RING)],
       ev |-> Append(X.ev, [type |-> "shift", gen |-> gen, from |-> target,
                            to |-> newForm, meaning |-> data.meaning])]

\* lines 176-186: the rename
Rename(X, target, newForm) ==
  LET st == X.st
      gen == st.generation
      data == Get(st.words, target)
      moved == [data EXCEPT !.word = newForm, !.history = Append(@, newForm)]
  IN  [st |-> [st EXCEPT
                 !.words = Put(Delete(@, target), moved),
                 !.stats.total_shifts = @ + 1,
                 !.sound_shifts = RingPush(@, [gen |-> gen, from |-> target,
                                               to |-> newForm, meaning |-> data.meaning],
                                           SHIFTS_RING)],
       ev |-> Append(X.ev, [type |-> "shift", gen |-> gen, from |-> target,
                            to |-> newForm, meaning |-> data.meaning])]

\* the condition of line 176
ShiftApplies(st, P) == P.shifted /\ P.newForm # P.target /\ ~Has(st.words, P.newForm)

\* 5. Sound shift
SoundShift(X, D) ==
  IF D.shift < P_SHIFT /\ Len(X.st.words) > 0
  THEN LET P == ShiftPlan(X.st, D)
       IN  IF ShiftApplies(X.st, P) THEN Rename(X, P.target, P.newForm) ELSE X
  ELSE X

\* the compound form of w1 and w2 (line 194)
CompoundForm(w1, w2) ==
  SliceTo(w1, Max(2, Len(w1) \div 2)) \o SliceFrom(w2, Len(w2) \div 2)

\* CompoundGate that asks for three living words
CompoundGate_three(st, D) == D.compound < P_COMPOUND /\ Len(st.words) >= 3

\* the condition of line 190
CompoundGate(st, D) == D.compound < P_COMPOUND /\ Len(st.words) >= MIN_COMPOUND_WORDS

\* CompoundFree that looks at the living words only
CompoundFree_wordsOnly(st, compound) == ~Has(st.words, compound)

\* the condition of line 196
CompoundFree(st, compound) == ~Has(st.words, compound) /\ ~Has(st.compounds, compound)

\* 6. Compound
Compound(X, D) ==
  IF CompoundGate(X.st, D)
  THEN
    LET st == X.st
        gen == st.generation
        keys == KeySeq(st.words)
        w1 == keys[RandIndex(D.c1, Len(keys)) + 1]
        w2 == keys[RandIndex(D.c2, Len(keys)) + 1]
        compound == CompoundForm(w1, w2)
        m1 == Get(st.words, w1).meaning
        m2 == Get(st.words, w2).meaning
        meaning == m1 \o "-" \o m2
    IN  IF w1 # w2 /\ CompoundFree(st, compound)
        THEN [st |-> [st EXCEPT
                        !.compounds = Put(@, [word |-> compound, parts |-> <<w1, w2>>,
                                              meanings |-> <<m1, m2>>,
                                              compound_meaning |-> meaning,
                                              born |-> gen]),
                        !.stats.total_compounds = @ + 1],
              ev |-> Append(X.ev, [type |-> "compound", gen |-> gen, word |-> compound,
                                   meaning |-> meaning, parts |-> <<w1, w2>>])]
        ELSE X
  ELSE X

\* { ...e, time: new Date().toISOString() }: the time stamp itself is not kept
Stamp(e) == [f \in DOMAIN e \cup {"time"} |-> IF f = "time" THEN "iso" ELSE e[f]]

\* lines 205-209
StoreEvents(X) ==
  LET pushed == X.st.events \o [i \in DOMAIN X.ev |-> Stamp(X.ev[i])]
  IN  [X EXCEPT !.st.events =
         IF Len(pushed) > EVENTS_RING THEN LastN(pushed, EVENTS_RING) ELSE pushed]

\* the handler after line 117, after each of its steps and at its return
StepsFrom(X0, D) ==
  LET X1 == Birth(X0, D)
      X2 == Usage(X1, D)
      X3 == Decay(X2)
      X4 == Extinction(X3)
      X5 == SoundShift(X4, D)
      X6 == Compound(X5, D)
  IN  [begin |-> X0, afterBirth |-> X1, afterUsage |-> X2, afterDecay |-> X3,
       afterExtinction |-> X4, afterShift |-> X5, afterCompound |-> X6,
       out |-> StoreEvents(X6)]

Steps(st, D) == StepsFrom(Begin(st), D)

\* evolveStep(): [st, ev], the state it leaves and the events it returns
evolveStep(st, D) == Steps(st, D).out

(***************************************************************************)
(* The draws explored.                                                     *)
(***************************************************************************)
\* draws of genSyllable: no onset / onset t, s, h; nucleus a, i; no coda
SylDraw(onset, onsetPick, nucleus) ==
  [onset |-> onset, onsetPick |-> onsetPick, nucleus |-> nucleus, coda |-> 0,
   codaPick |-> 0]
S_a == SylDraw(10, 0, 0)
S_ta == SylDraw(50, 35, 0)
S_sa == SylDraw(50, 45, 0)
S_ha == SylDraw(50, 73, 0)
S_i == SylDraw(10, 0, 40)
S_ti == SylDraw(50, 35, 40)
S_si == SylDraw(50, 45, 40)
S_hi == SylDraw(50, 73, 40)

\* draws of genWord: the forms a, ta, sa, ha, taa
W_a == [n |-> 10, syls |-> <<S_a>>]
W_ta == [n |-> 10, syls |-> <<S_ta>>]
W_sa == [n |-> 10, syls |-> <<S_sa>>]
W_ha == [n |-> 10, syls |-> <<S_ha>>]
W_taa == [n |-> 40, syls |-> <<S_ta, S_a>>]
\* and the forms i, ti, si, hi
W_i == [n |-> 10, syls |-> <<S_i>>]
W_ti == [n |-> 10, syls |-> <<S_ti>>]
W_si == [n |-> 10, syls |-> <<S_si>>]
W_hi == [n |-> 10, syls |-> <<S_hi>>]

\* draws of the seeding: ten concept draws that pick k distinct concepts, and
\* the genWord draws of the distinct concepts
ConceptDraws(k) == [i \in 1..SEED_DRAWS |-> IF i <= k THEN 2 * (i - 1) ELSE 0]
SeedDraws ==
  { [concepts |-> ConceptDraws(1), words |-> <<W_ta>>],
    [concepts |-> ConceptDraws(2), words |-> <<W_ta, W_ta>>],
    [concepts |-> ConceptDraws(3), words |-> <<W_sa, W_ta, W_a>>],
    [concepts |-> ConceptDraws(4), words |-> <<W_ta, W_sa, W_a, W_ha>>] }
\* the seeding explored beside the synchroniser
SyncSeed == [concepts |-> ConceptDraws(1), words |-> <<W_ta>>]
\* the seeding of the long run
LongSeed == [concepts |-> ConceptDraws(4), words |-> <<W_ta, W_sa, W_a, W_ha>>]

\* draws of one evolveStep call, explored freely
BirthDraws ==
  { [birth |-> 99, concept |-> 0, word |-> << >>],
    [birth |-> 0, concept |-> 0, word |-> <<W_taa, W_sa, W_ta, W_a, W_ha>>],
    [birth |-> 0, concept |-> 0, word |-> <<W_ta, W_sa, W_taa, W_a, W_ha>>] }
ShuffleDraws == {0, -1}
ShiftDraws ==
  { [shift |-> 99, target |-> 0, subs |-> << >>],
    [shift |-> 0, target |-> 0, subs |-> <<[gate |-> 0, pick |-> 60]>>],
    [shift |-> 0, target |-> 99, subs |-> <<[gate |-> 0, pick |-> 0]>>],
    [shift |-> 0, target |-> 99, subs |-> <<[gate |-> 99, pick |-> 0]>>] }
CompoundDraws ==
  { [compound |-> 99, c1 |-> 0, c2 |-> 0],
    [compound |-> 0, c1 |-> 0, c2 |-> 60],
    [compound |-> 0, c1 |-> 30, c2 |-> 30] }

Draws(b, u, s, c) ==
  [birth |-> b.birth, concept |-> b.concept, word |-> b.word, shuffle |-> u,
   shift |-> s.shift, target |-> s.target, subs |-> s.subs,
   compound |-> c.compound, c1 |-> c.c1, c2 |-> c.c2]

FreeDraws ==
  { Draws(b, u, s, c) :
      b \in BirthDraws, u \in ShuffleDraws, s \in ShiftDraws, c \in CompoundDraws }

\* draws of one evolveStep call, explored beside the synchroniser
SyncDraws ==
  { Draws(b, u, s, [compound |-> 99, c1 |-> 0, c2 |-> 0]) :
      b \in { [birth |-> 99, concept |-> 0, word |-> << >>],
               [birth |-> 0, concept |-> 0, word |-> <<W_ta, W_sa, W_a>>] },
      u \in ShuffleDraws,
      s \in { [shift |-> 99, target |-> 0, subs |-> << >>],
               [shift |-> 0, target |-> 0, subs |-> <<[gate |-> 0, pick |-> 0]>>] } }

\* draws of one evolveStep call, explored on the lexicons of a snapshot: those
\* of SyncDraws, and a shift of the first key by the second option
SnapDraws ==
  SyncDraws \cup
  { Draws(b, 0, [shift |-> 0, target |-> 0, subs |-> <<[gate |-> 0, pick |-> 60]>>],
          [compound |-> 99, c1 |-> 0, c2 |-> 0]) :
      b \in { [birth |-> 99, concept |-> 0, word |-> << >>],
               [birth |-> 0, concept |-> 0, word |-> <<W_ta, W_sa, W_a>>] } }

\* the genWord draws rotated to start at k
Rotate(s, k) == [i \in DOMAIN s |-> s[((i - 1 + k) % Len(s)) + 1]]

\* the pinned draws of call c of the long run: a birth on every second call,
\* the first key used, a shift of the last key tried on every third call, a
\* compound of the first and last key tried on every seventh
LongDraws(c) ==
  Draws([birth |-> IF c % 2 = 0 THEN 0 ELSE 99, concept |-> 0,
         word |-> IF c % 2 = 0 THEN Rotate(<<W_ta, W_sa, W_ha, W_a, W_taa, W_ti, W_si, W_hi, W_i>>,
                              c \div 2)
                  ELSE << >>],
        0,
        IF c % 3 = 0
        THEN [shift |-> 0, target |-> 99, subs |-> <<[gate |-> 0, pick |-> 60 * (c % 2)]>>]
        ELSE [shift |-> 99, target |-> 0, subs |-> << >>],
        IF c % 7 = 0 THEN [compound |-> 0, c1 |-> 0, c2 |-> 99]
        ELSE [compound |-> 99, c1 |-> 0, c2 |-> 0])

\* the draws explored for the next call
DrawsAt(m, c) ==
  CASE m = "long" -> IF c < WarmLen THEN {LongDraws(c + 1)}
                     ELSE IF c < WarmLen + MaxGen THEN FreeDraws ELSE {}
    [] m = "explore" -> IF c < MaxGen THEN FreeDraws ELSE {}
    [] m = "sync" -> IF c < MaxSyncGen THEN SyncDraws ELSE {}
    [] m = "snap" -> IF c < MaxSnapGen THEN SnapDraws ELSE {}
    [] OTHER -> {}

(***************************************************************************)
(* Construction: lines 78-100.                                             *)
(***************************************************************************)
\* [...new Set(initial)]: the elements of s from index i on, each at its first
\* occurrence in s, in order
Unique(s, i) ==
  LET first == {k \in i..Len(s) : \A j \in 1..(k - 1) : s[j] # s[k]}
  IN  [n \in 1..Cardinality(first) |->
         s[CHOOSE k \in first : Cardinality({j \in first : j <= k}) = n]]

RECURSIVE SeedWords(_, _, _, _)
SeedWords(words, unique, wd, i) ==
  IF i > Len(unique) THEN words
  ELSE LET word == genWord(wd[i])
       IN  SeedWords(Put(words, [word |-> word, meaning |-> unique[i],
                                 category |-> CONCEPT_CATS(unique[i]), born |-> 0,
                                 uses |-> 1, fitness |-> FIT_SEED, history |-> <<word>>]),
                     unique, wd, i + 1)

\* the state after construction without a snapshot, for the seeding draws sd
Seed(sd) ==
  LET initial == [i \in 1..SEED_DRAWS |->
                    ALL_CONCEPTS[RandIndex(sd.concepts[i], Len(ALL_CONCEPTS)) + 1]]
      unique == SliceTo(Unique(initial, 1), 10)
      words == SeedWords(<< >>, unique, sd.words, 1)
  IN  [words |-> words, compounds |-> << >>, generation |-> 0, extinct |-> << >>,
       sound_shifts |-> << >>, events |-> << >>,
       stats |-> [total_generated |-> Len(words), total_extinct |-> 0,
                  total_compounds |-> 0, total_shifts |-> 0],
       piConnected |-> FALSE, lastPiSync |-> "none", absent |-> {}]

(***************************************************************************)
(* syncFromPi: lines 242-271.  A response body is [kind, has, ...]: kind   *)
(* "invalid" (res.json() rejects, or yields null) or "object", whose       *)
(* fields present are named by has.                                        *)
(***************************************************************************)
Body(kind, has, words, compounds, generation, extinct, sound_shifts, stats) ==
  [kind |-> kind, has |-> has, words |-> words, compounds |-> compounds,
   generation |-> generation, extinct |-> extinct, sound_shifts |-> sound_shifts,
   stats |-> stats]

NoStats == ZeroStats

NoBody == Body("none", {}, << >>, << >>, 0, << >>, << >>, NoStats)

\* MergeAssign that takes the remote extinct list whenever there is one
MergeAssign_remoteExtinct(st, pi) ==
  LET ourEvents == IF "events" \in st.absent THEN << >> ELSE st.events
      ourExtinct == IF "extinct" \notin st.absent THEN st.extinct
                    ELSE IF "extinct" \in pi.has THEN pi.extinct ELSE << >>
      ourShifts == IF "sound_shifts" \notin st.absent THEN st.sound_shifts
                   ELSE IF "sound_shifts" \in pi.has THEN pi.sound_shifts ELSE << >>
      ourStats == IF "stats" \in pi.has THEN pi.stats
                  ELSE IF "stats" \in st.absent THEN UndefinedStats ELSE st.stats
  IN  [st EXCEPT
         !.words = IF "words" \in pi.has THEN pi.words ELSE << >>,
         !.compounds = IF "compounds" \in pi.has THEN pi.compounds ELSE << >>,
         !.generation = IF "generation" \in pi.has THEN pi.generation ELSE 0,
         !.extinct = IF "extinct" \in pi.has THEN pi.extinct ELSE ourExtinct,
         !.sound_shifts = IF "sound_shifts" \in pi.has
                             /\ Len(pi.sound_shifts) > Len(ourShifts)
                          THEN pi.sound_shifts ELSE ourShifts,
         !.stats = ourStats,
         !.events = ourEvents,
         !.piConnected = TRUE,
         !.lastPiSync = "iso",
         !.absent = IF "stats" \in pi.has THEN {}
                    ELSE IF "stats" \in st.absent THEN Counters ELSE @ \cap Counters]

\* lines 251-263 for the parsed body pi: the assignments of the merge
MergeAssign(st, pi) ==
  LET ourEvents == IF "events" \in st.absent THEN << >> ELSE st.events
      ourExtinct == IF "extinct" \notin st.absent THEN st.extinct
                    ELSE IF "extinct" \in pi.has THEN pi.extinct ELSE << >>
      ourShifts == IF "sound_shifts" \notin st.absent THEN st.sound_shifts
                   ELSE IF "sound_shifts" \in pi.has THEN pi.sound_shifts ELSE << >>
      ourStats == IF "stats" \in pi.has THEN pi.stats
                  ELSE IF "stats" \in st.absent THEN UndefinedStats ELSE st.stats
  IN  [st EXCEPT
         !.words = IF "words" \in pi.has THEN pi.words ELSE << >>,
         !.compounds = IF "compounds" \in pi.has THEN pi.compounds ELSE << >>,
         !.generation = IF "generation" \in pi.has THEN pi.generation ELSE 0,
         !.extinct = IF "extinct" \in pi.has /\ Len(pi.extinct) > Len(ourExtinct)
                     THEN pi.extinct ELSE ourExtinct,
         !.sound_shifts = IF "sound_shifts" \in pi.has
                             /\ Len(pi.sound_shifts) > Len(ourShifts)
                          THEN pi.sound_shifts ELSE ourShifts,
         !.stats = ourStats,
         !.events = ourEvents,
         !.piConnected = TRUE,
         !.lastPiSync = "iso",
         !.absent = IF "stats" \in pi.has THEN {}
                    ELSE IF "stats" \in st.absent THEN Counters ELSE @ \cap Counters]

\* line 264 reads Object.keys(piState.words): it throws when words is absent
LogThrows(pi) == "words" \notin pi.has

\* syncBody whose failure on a body without words stops after line 256
syncBody_torn(st, pi) ==
  IF pi.kind # "object"
  THEN [st |-> [st EXCEPT !.piConnected = FALSE], ok |-> FALSE]
  ELSE IF LogThrows(pi)
       THEN [st |-> [st EXCEPT !.words = << >>,
                               !.compounds = MergeAssign(st, pi).compounds,
                               !.piConnected = FALSE],
             ok |-> FALSE]
       ELSE [st |-> MergeAssign(st, pi), ok |-> TRUE]

\* lines 249-270 once the response is OK: [st, ok], the state left and the
\* value returned.  res.json() rejecting, or reading piState.stats of null,
\* throws before any assignment; the catch sets piConnected = false
syncBody(st, pi) ==
  IF pi.kind # "object"
  THEN [st |-> [st EXCEPT !.piConnected = FALSE], ok |-> FALSE]
  ELSE IF LogThrows(pi)
       THEN [st |-> [MergeAssign(st, pi) EXCEPT !.piConnected = FALSE], ok |-> FALSE]
       ELSE [st |-> MergeAssign(st, pi), ok |-> TRUE]

(***************************************************************************)
(* What the last operation did, for the statements about one call: the     *)
(* words the usage step selected, the entries with fitness <= 0 after the  *)
(* decay step, the number of living words when the compounding step ran,   *)
(* and which of the random gates of steps 5 and 6 passed.                  *)
(***************************************************************************)
\* no syncFromPi call is running; since is the number of evolveStep calls made
\* when the last one began
NoSync == [pc |-> "idle", n |-> 0, body |-> NoBody, since |-> 0]

\* no evolveStep call is inside its birth loop
NoLoop == [pc |-> "idle", concept |-> 0, draw |-> W_a]

\* the runs in which the whole course of a call is recorded: the state it
\* started on, its draws, and the state and events after each step
TraceModes == {"snap"}
NoTrace == << >>

NoCall(op) ==
  [op |-> op, used |-> {}, doomed |-> << >>, atCompound |-> 0,
   shiftDraw |-> FALSE, compoundDraw |-> FALSE, trace |-> NoTrace]

CallInfo(T, D) ==
  [op |-> "evolve",
   used |-> UsedWords(T.afterBirth.st, D),
   doomed |-> SelectSeq(T.afterDecay.st.words, LAMBDA d : d.fitness <= 0),
   atCompound |-> Len(T.afterShift.st.words),
   shiftDraw |-> D.shift < P_SHIFT,
   compoundDraw |-> D.compound < P_COMPOUND,
   trace |-> IF mode \in TraceModes
             THEN [start |-> state, draws |-> D, begin |-> T.begin,
                   afterBirth |-> T.afterBirth, afterUsage |-> T.afterUsage,
                   afterDecay |-> T.afterDecay, afterExtinction |-> T.afterExtinction,
                   afterShift |-> T.afterShift, afterCompound |-> T.afterCompound]
             ELSE NoTrace]

(***************************************************************************)
(* The engine alone: construction, then evolveStep calls.                  *)
(***************************************************************************)
InitMode(m) ==
  /\ mode = m
  /\ \E sd \in SeedDraws :
       /\ m = "long" => sd = LongSeed
       /\ m = "sync" => sd = SyncSeed
       /\ state = Seed(sd)
  /\ ret = << >>
  /\ last = NoCall("seed")
  /\ calls = 0
  /\ sync = NoSync
  /\ call = NoLoop

Init == InitMode("explore") \/ InitMode("long")

\* one evolveStep call (GET /api/evolve, or the timer)
Evolve ==
  \E D \in DrawsAt(mode, calls) :
    /\ BirthLoopExits(Begin(state).st, D)
    /\ LET T == Steps(state, D)
       IN  /\ state' = T.out.st
           /\ ret' = T.out.ev
           /\ last' = CallInfo(T, D)
    /\ calls' = calls + 1
    /\ UNCHANGED <<mode, sync, call>>

Next == Evolve

Spec == Init /\ [][Next]_vars

(***************************************************************************)
(* The engine with the synchroniser: syncFromPi runs up to its awaits      *)
(* (fetch, res.json()), and evolveStep calls run in between.               *)
(***************************************************************************)
\* response bodies explored
W_remote ==
  [word |-> <<"s", "a">>, meaning |-> "water", category |-> "natural", born |-> 6,
   uses |-> 0, fitness |-> 1, history |-> << <<"s", "a">> >>]
X_remote ==
  [word |-> <<"d", "a">>, meaning |-> "fire", born |-> 1, died |-> 6, uses |-> 0]
Remote ==
  Body("object", {"words", "compounds", "generation", "extinct", "sound_shifts", "stats"},
       <<W_remote>>, << >>, 7, <<X_remote>>, << >>,
       [total_generated |-> 2, total_extinct |-> 1, total_compounds |-> 0,
        total_shifts |-> 0])
Bodies ==
  { Remote,
    Body("object", {"words", "extinct"}, <<W_remote>>, << >>, 0, << >>, << >>, NoStats),
    Body("object", {"generation", "extinct", "stats"}, << >>, << >>, 7, <<X_remote>>,
         << >>, Remote.stats),
    Body("invalid", {}, << >>, << >>, 0, << >>, << >>, NoStats) }

\* lines 243-246: the call runs up to `await fetch(...)`
SyncStart ==
  /\ sync.pc = "idle"
  /\ sync.n < MaxSync
  /\ sync' = [pc |-> "fetch", n |-> sync.n + 1, body |-> NoBody, since |-> calls]
  /\ last' = NoCall("sync_start")
  /\ UNCHANGED <<state, ret, calls, mode, call>>

\* fetch rejects (unreachable, or aborted after the timeout): the catch
SyncFetchFail ==
  /\ sync.pc = "fetch"
  /\ state' = [state EXCEPT !.piConnected = FALSE]
  /\ sync' = [sync EXCEPT !.pc = "idle"]
  /\ last' = NoCall("sync_fail")
  /\ UNCHANGED <<ret, calls, mode, call>>

\* a response with res.ok false: line 248 skips the block, line 270 returns false
SyncNotOk ==
  /\ sync.pc = "fetch"
  /\ sync' = [sync EXCEPT !.pc = "idle"]
  /\ last' = NoCall("sync_fail")
  /\ UNCHANGED <<state, ret, calls, mode, call>>

\* a response with res.ok true: the call runs up to `await res.json()`
SyncResponse ==
  /\ sync.pc = "fetch"
  /\ \E b \in Bodies : sync' = [sync EXCEPT !.pc = "json", !.body = b]
  /\ last' = NoCall("sync_response")
  /\ UNCHANGED <<state, ret, calls, mode, call>>

\* lines 249-270: the body is parsed and merged
SyncBody ==
  /\ sync.pc = "json"
  /\ LET R == syncBody(state, sync.body)
     IN  /\ state' = R.st
         /\ last' = NoCall(IF R.ok THEN "sync_ok" ELSE "sync_fail")
  /\ sync' = [sync EXCEPT !.pc = "idle"]
  /\ UNCHANGED <<ret, calls, mode, call>>

\* GET /api/evolve (lines 287-290)
ApiEvolve == Evolve

\* the timer of lines 321-328
AutoEvolve == ~state.piConnected /\ Evolve

InitSync == InitMode("sync")

NextSync ==
  \/ ApiEvolve
  \/ AutoEvolve
  \/ SyncStart
  \/ SyncFetchFail
  \/ SyncNotOk
  \/ SyncResponse
  \/ SyncBody

SpecSync == InitSync /\ [][NextSync]_vars

(***************************************************************************)
(* Construction from the bundled snapshot: lines 10-16 and 78-100.  A      *)
(* snapshot is [kind, has, ...]: kind "none" (no data/snapshot.json) or    *)
(* "object", whose fields present are named by has.                        *)
(***************************************************************************)
Fields == Collections \cup Counters \cup {"stats", "generation"}

Snap(has, words, compounds, generation, extinct, sound_shifts, events, stats) ==
  [kind |-> "object", has |-> has,
   words |-> IF "words" \in has THEN words ELSE Undefined,
   compounds |-> IF "compounds" \in has THEN compounds ELSE Undefined,
   generation |-> IF "generation" \in has THEN generation ELSE UndefinedNum,
   extinct |-> IF "extinct" \in has THEN extinct ELSE Undefined,
   sound_shifts |-> IF "sound_shifts" \in has THEN sound_shifts ELSE Undefined,
   events |-> IF "events" \in has THEN events ELSE Undefined,
   stats |-> [c \in Counters |->
                IF "stats" \in has /\ c \in has THEN stats[c] ELSE UndefinedNum]]

NoSnapshot == [Snap({}, << >>, << >>, 0, << >>, << >>, << >>, ZeroStats) EXCEPT !.kind = "none"]

\* lines 78-100: [ok, st], whether the module loaded and the state it made.
\* Seeding into a snapshot without words (line 95) or without stats (line 97)
\* throws, and the process never serves a request
Load(snap, sd) ==
  IF snap.kind = "none" THEN [ok |-> TRUE, st |-> Seed(sd)]
  ELSE
    LET A == IF "stats" \in snap.has THEN Fields \ snap.has
             ELSE (Fields \ snap.has) \ Counters
        seeds == "words" \in A \/ snap.words = << >>
        words == IF seeds THEN Seed(sd).words ELSE snap.words
    IN  [ok |-> ~seeds \/ ("words" \notin A /\ "stats" \notin A),
         st |-> [words |-> words, compounds |-> snap.compounds,
                 generation |-> snap.generation, extinct |-> snap.extinct,
                 sound_shifts |-> snap.sound_shifts,
                 events |-> IF "events" \in A THEN << >> ELSE snap.events,
                 stats |-> IF seeds
                           THEN [snap.stats EXCEPT !.total_generated = Len(words)]
                           ELSE snap.stats,
                 piConnected |-> FALSE, lastPiSync |-> "none",
                 absent |-> (A \ {"events"})
                            \ (IF seeds THEN {"total_generated"} ELSE {})]]

\* a word of a snapshot or of a remote body
Entry(word, meaning, born, uses, fitness) ==
  [word |-> word, meaning |-> meaning, category |-> CONCEPT_CATS(meaning), born |-> born,
   uses |-> uses, fitness |-> fitness, history |-> <<word>>]

(***************************************************************************)
(* evolveStep followed through its birth loop (lines 124-125), one         *)
(* iteration per step, from lexicons loaded from a snapshot or merged from *)
(* the remote.                                                             *)
(***************************************************************************)
\* the genWord draws explored in the loop, and the forms they make
LoopWordDraws == <<W_ta, W_sa, W_a>>
LoopForms == [i \in DOMAIN LoopWordDraws |-> genWord(LoopWordDraws[i])]

\* the draws of the steps after the birth
LoopDraws(b) ==
  { Draws(b, u, s, [compound |-> 99, c1 |-> 0, c2 |-> 0]) :
      u \in ShuffleDraws,
      s \in { [shift |-> 99, target |-> 0, subs |-> << >>],
               [shift |-> 0, target |-> 0, subs |-> <<[gate |-> 0, pick |-> 0]>>] } }

\* snapshots: none, one word, and a word for every form of LoopForms
OneWordSnapshot ==
  Snap(Fields, <<Entry(LoopForms[1], "water", 0, 1, FIT_SEED)>>, << >>, 0, << >>, << >>,
       << >>, [ZeroStats EXCEPT !.total_generated = 1])
FullSnapshot ==
  Snap(Fields, [i \in DOMAIN LoopForms |-> Entry(LoopForms[i], ALL_CONCEPTS[i], 0, 1, FIT_SEED)],
       << >>, 0, << >>, << >>, << >>, [ZeroStats EXCEPT !.total_generated = Len(LoopForms)])
LoopSnapshots == {NoSnapshot, OneWordSnapshot, FullSnapshot}

\* remote bodies: an empty lexicon, and the one-word lexicon
LoopBodies ==
  { Body("object", {"words", "generation"}, << >>, << >>, 3, << >>, << >>, NoStats),
    Remote }

InitLoop ==
  /\ mode = "loop"
  /\ \E snap \in LoopSnapshots :
       /\ Load(snap, SyncSeed).ok
       /\ state = Load(snap, SyncSeed).st
  /\ ret = << >>
  /\ last = NoCall("seed")
  /\ calls = 0
  /\ sync = NoSync
  /\ call = NoLoop

\* a call whose birth draw fails: lines 102-212 without the block of 120-129
CallNoBirth ==
  /\ call.pc = "idle"
  /\ calls < MaxLoopGen
  /\ \E D \in LoopDraws([birth |-> 99, concept |-> 0, word |-> << >>]) :
       LET T == Steps(state, D)
       IN  /\ state' = T.out.st
           /\ ret' = T.out.ev
           /\ last' = CallInfo(T, D)
  /\ calls' = calls + 1
  /\ UNCHANGED <<mode, sync, call>>

\* lines 102-124: the call up to its first `genWord()`
CallBirth ==
  /\ call.pc = "idle"
  /\ calls < MaxLoopGen
  /\ state' = Begin(state).st
  /\ \E i \in DOMAIN LoopWordDraws :
       call' = [pc |-> "retry", concept |-> 0, draw |-> LoopWordDraws[i]]
  /\ last' = NoCall("birth_loop")
  /\ UNCHANGED <<ret, calls, mode, sync>>

\* line 125, the condition true: the body draws again
Retry ==
  /\ call.pc = "retry"
  /\ Has(state.words, genWord(call.draw))
  /\ \E i \in DOMAIN LoopWordDraws : call' = [call EXCEPT !.draw = LoopWordDraws[i]]
  /\ UNCHANGED <<state, ret, last, calls, mode, sync>>

\* line 125, the condition false: lines 126-212
CallFinish ==
  /\ call.pc = "retry"
  /\ ~Has(state.words, genWord(call.draw))
  /\ \E D \in LoopDraws([birth |-> 0, concept |-> call.concept, word |-> <<call.draw>>]) :
       LET T == StepsFrom([st |-> state, ev |-> << >>], D)
       IN  /\ state' = T.out.st
           /\ ret' = T.out.ev
           /\ last' = CallInfo(T, D)
  /\ calls' = calls + 1
  /\ call' = NoLoop
  /\ UNCHANGED <<mode, sync>>

\* syncFromPi succeeding while no call is running (lines 242-265)
Merge ==
  /\ call.pc = "idle"
  /\ sync.n < MaxSync
  /\ \E b \in LoopBodies :
       /\ syncBody(state, b).ok
       /\ state' = syncBody(state, b).st
       /\ sync' = [sync EXCEPT !.n = @ + 1, !.body = b]
  /\ last' = NoCall("sync_ok")
  /\ UNCHANGED <<ret, calls, mode, call>>

NextLoop ==
  \/ CallNoBirth
  \/ CallBirth
  \/ Retry
  \/ CallFinish
  \/ Merge

SpecLoop == InitLoop /\ [][NextLoop]_vars

(***************************************************************************)
(* evolveStep on the lexicons a snapshot can give: fields missing, and     *)
(* every concept of the catalog covered.                                   *)
(***************************************************************************)
\* the concepts of the catalog, each once
DistinctConcepts == Unique(ALL_CONCEPTS, 1)

\* a snapshot with the fields has: one word, of fitness 1.95, one compound,
\* generation 5
PartialSnapshot(has) ==
  Snap(has, <<Entry(<<"t", "a">>, "water", 0, 1, FIT_MAX - 1)>>,
       <<[word |-> <<"t", "a", "n", "o">>, parts |-> << <<"t", "a">>, <<"n", "o">> >>,
          meanings |-> <<"water", "fire">>, compound_meaning |-> "water-fire",
          born |-> 2]>>,
       5, <<X_remote>>,
       <<[gen |-> 3, from |-> <<"k", "a">>, to |-> <<"g", "a">>,
          meaning |-> "fire"]>>,
       << >>,
       [total_generated |-> 3, total_extinct |-> 2, total_compounds |-> 1,
        total_shifts |-> 1])

\* a snapshot with a word for every concept: the forms are kan, nan, ... lum
CoveredSnapshot ==
  Snap(Fields,
       [i \in DOMAIN DistinctConcepts |->
          Entry(<<CONSONANTS[((i - 1) % 12) + 1], VOWELS[(((i - 1) \div 12) % 5) + 1],
                  IF i <= 60 THEN "n" ELSE "m">>,
                DistinctConcepts[i], 0, 1, FIT_SEED)],
       << >>, 0, << >>, << >>, << >>,
       [ZeroStats EXCEPT !.total_generated = Len(DistinctConcepts)])

Snapshots ==
  {NoSnapshot, CoveredSnapshot} \cup
  {PartialSnapshot(has \cup {"words"}) : has \in SUBSET (Fields \ {"words"})}

InitSnap ==
  /\ mode = "snap"
  /\ \E snap \in Snapshots :
       /\ Load(snap, SyncSeed).ok
       /\ state = Load(snap, SyncSeed).st
  /\ ret = << >>
  /\ last = NoCall("seed")
  /\ calls = 0
  /\ sync = NoSync
  /\ call = NoLoop

NextSnap == Evolve

SpecSnap == InitSnap /\ [][NextSnap]_vars

(***************************************************************************)
(* Properties.                                                             *)
(***************************************************************************)
EventsOf(evs, t) == SelectSeq(evs, LAMBDA e : e.type = t)
IsPrefix(s, t) == Len(s) <= Len(t) /\ SubSeq(t, 1, Len(s)) = s
\* the same word, whatever its present form: its generation of birth and its
\* meaning (one birth per generation; the seeds have distinct concepts)
SameWord(a, b) == a.born = b.born /\ a.meaning = b.meaning
ExtinctRecord(d, gen) ==
  [word |-> d.word, meaning |-> d.meaning, born |-> d.born, died |-> gen, uses |-> d.uses]
ShiftRecord(e) == [gen |-> e.gen, from |-> e.from, to |-> e.to, meaning |-> e.meaning]
InList(list, e) == \E i \in DOMAIN list : list[i] = e

\* C1: no surface form is a key of the living words and of the compounds at
\* the same time, in any state reached from a seeded lexicon by evolveStep calls
C1_KeyUniqueness == Keys(state.words) \cap Keys(state.compounds) = {}

\* C2 as stated: every word with fitness <= 0 after the decay step is, when the
\* call returns, no key of the living words, and its extinct record is in
\* extinct, which has at most 50 entries
C2_FormAbsentAfterCall ==
  last.op = "evolve" =>
    /\ Len(state.extinct) <= 50
    /\ \A i \in DOMAIN last.doomed :
         /\ last.doomed[i].word \notin Keys(state.words)
         /\ InList(state.extinct, ExtinctRecord(last.doomed[i], state.generation))

\* C2 as amended: every word with fitness <= 0 after the decay step is gone
\* when the call returns: no living word is that word, its form is a living key
\* only if the sound shift of the same call renamed another word to it, and the
\* records of the words that died in the call are the last entries of extinct,
\* in the order of the keys (all of them, as no more than 50 died)
C2_WordGoneAfterCall ==
  last.op = "evolve" =>
    LET k == Len(last.doomed)
        n == Len(state.extinct)
    IN  /\ n <= 50
        /\ k <= 50 => k <= n
        /\ \A i \in DOMAIN last.doomed :
             LET d == last.doomed[i]
             IN  /\ \A j \in DOMAIN state.words : ~SameWord(state.words[j], d)
                 /\ d.word \in Keys(state.words) =>
                      \E e \in DOMAIN ret : ret[e].type = "shift" /\ ret[e].to = d.word
                 /\ k <= 50 =>
                      state.extinct[n - k + i] = ExtinctRecord(d, state.generation)

\* C2 witness: a call in which several words met the threshold
C2_Witness == last.op = "evolve" /\ Len(last.doomed) >= 2

\* C3: after every call extinct has at most 50 entries, sound_shifts at most 30
\* and events at most 200, and each list is the most recent entries in the
\* order of insertion: the old list followed by the entries of the call, cut
\* to its last 50, 30 or 200
C3_RingBounds ==
  [][ LET gen == state'.generation
          died == [i \in DOMAIN last'.doomed |-> ExtinctRecord(last'.doomed[i], gen)]
          sh == EventsOf(ret', "shift")
          shifts == [i \in DOMAIN sh |-> ShiftRecord(sh[i])]
          stamped == [i \in DOMAIN ret' |-> Stamp(ret'[i])]
      IN  /\ Len(state'.extinct) <= 50
          /\ Len(state'.sound_shifts) <= 30
          /\ Len(state'.events) <= 200
          /\ state'.extinct = LastN(state.extinct \o died, 50)
          /\ state'.sound_shifts = LastN(state.sound_shifts \o shifts, 30)
          /\ state'.events = LastN(state.events \o stamped, 200) ]_vars

\* C3 witness: the three lists are full and have dropped entries
C3_Witness ==
  /\ Len(state.extinct) = 50 /\ state.stats.total_extinct > 50
  /\ Len(state.sound_shifts) = 30 /\ state.stats.total_shifts > 30
  /\ Len(state.events) = 200
  /\ state.stats.total_generated + state.stats.total_extinct
       + state.stats.total_shifts + state.stats.total_compounds > 200 + SEED_DRAWS

\* C4: generation starts at 0 and grows by exactly one per call, and none of
\* the four counters of stats decreases from one call to the next
C4_GenerationAndCounters ==
  /\ state.generation = 0
  /\ [][ /\ state'.generation = state.generation + 1
         /\ state'.generation = calls'
         /\ state'.stats.total_generated >= state.stats.total_generated
         /\ state'.stats.total_extinct >= state.stats.total_extinct
         /\ state'.stats.total_compounds >= state.stats.total_compounds
         /\ state'.stats.total_shifts >= state.stats.total_shifts ]_vars

\* C4 witness: several calls after which every counter has grown
C4_Witness ==
  /\ state.generation >= 2
  /\ state.stats.total_extinct > 0
  /\ state.stats.total_compounds > 0
  /\ state.stats.total_shifts > 0

\* C5: the history of a living word, followed through its renames, before a
\* call is a prefix of its history after the call
C5_HistoryAppendOnly ==
  [][ \A i \in DOMAIN state.words : \A j \in DOMAIN state'.words :
        SameWord(state.words[i], state'.words[j]) =>
          IsPrefix(state.words[i].history, state'.words[j].history) ]_vars

\* C5 witness: a word renamed twice, the second time in the last call
C5_Witness ==
  /\ EventsOf(ret, "shift") # << >>
  /\ \E i \in DOMAIN state.words :
       /\ Len(state.words[i].history) >= 3
       /\ state.words[i].word = EventsOf(ret, "shift")[1].to

\* C6 as stated: a call run on 3 or fewer living words emits no compound event
\* and adds no compound
C6_NoCompoundFromThree ==
  [][ Len(state.words) <= 3 =>
        EventsOf(ret', "compound") = << >> /\ state'.compounds = state.compounds ]_vars

\* C6 as amended: a call in which fewer than 4 living words exist when the
\* compounding step runs, and so every call run on 2 or fewer living words,
\* emits no compound event and adds no compound
C6_NoCompoundBelowFour ==
  [][ (last'.atCompound < 4 \/ Len(state.words) <= 2) =>
        EventsOf(ret', "compound") = << >> /\ state'.compounds = state.compounds ]_vars

\* C6 witness: the compounding draw passed with 3 living words, and no
\* compound was made
C6_Witness ==
  /\ last.op = "evolve" /\ last.compoundDraw /\ last.atCompound = 3
  /\ EventsOf(ret, "compound") = << >>

\* the scenario of C7: exactly one living word, of fitness 0.05 and uses 0,
\* older than 0 at the generation the next call makes
OneFadingWord(st) ==
  /\ Len(st.words) = 1
  /\ st.words[1].fitness = 1
  /\ st.words[1].uses = 0
  /\ st.generation + 1 - st.words[1].born > 0
\* the word d is extinct after the call: no living word is d, and its record
\* is the last of extinct
IsExtinct(st, d) ==
  /\ \A j \in DOMAIN st.words : ~SameWord(st.words[j], d)
  /\ st.extinct # << >>
  /\ st.extinct[Len(st.extinct)] = ExtinctRecord(d, st.generation)

\* C7 as stated: from a state with exactly one living word, of fitness 0.05,
\* uses 0 and age > 0 at the new generation, that word is extinct after one
\* call, whatever the draws
C7_FadingWordDies ==
  [][ (OneFadingWord(state) /\ last'.op = "evolve") =>
        IsExtinct(state', state.words[1]) ]_vars

\* C7 as amended: from such a state the word is extinct after one call exactly
\* when the usage step of the call did not select it; a call that gives birth
\* to no word selects it, and a selected word lives on with uses 1 and
\* fitness 0.10
C7_FadingWordDiesIffUnused ==
  [][ (OneFadingWord(state) /\ last'.op = "evolve") =>
        LET d == state.words[1]
            selected == d.word \in last'.used
        IN  /\ IsExtinct(state', d) <=> ~selected
            /\ EventsOf(ret', "birth") = << >> => selected
            /\ selected =>
                 \E j \in DOMAIN state'.words :
                   /\ SameWord(state'.words[j], d)
                   /\ state'.words[j].uses = 1
                   /\ state'.words[j].fitness = 2 ]_vars

\* C7 witness: the call after the merge of the one-word snapshot removed its
\* word, which the usage step had passed over for the newborn
C7_Witness ==
  /\ last.op = "evolve"
  /\ state.generation = Remote.generation + 1
  /\ W_remote.word \notin last.used
  /\ IsExtinct(state, W_remote)

\* C8: after a successful synchronisation words, compounds and generation are
\* the remote ones (empty or 0 for a field the snapshot lacks), extinct and
\* sound_shifts are each the longer of the local list as of the merge and the
\* remote one, the local one on a tie or when the remote one is absent, stats
\* are the remote stats if present and else the local ones, and events are the
\* local events as of the merge
C8_MergeResult ==
  [][ last'.op = "sync_ok" =>
        LET pi == sync.body
        IN  /\ "words" \in pi.has /\ state'.words = pi.words
            /\ state'.compounds = (IF "compounds" \in pi.has THEN pi.compounds ELSE << >>)
            /\ state'.generation = (IF "generation" \in pi.has THEN pi.generation ELSE 0)
            /\ state'.extinct =
                 (IF "extinct" \in pi.has /\ Len(pi.extinct) > Len(state.extinct)
                  THEN pi.extinct ELSE state.extinct)
            /\ state'.sound_shifts =
                 (IF "sound_shifts" \in pi.has
                     /\ Len(pi.sound_shifts) > Len(state.sound_shifts)
                  THEN pi.sound_shifts ELSE state.sound_shifts)
            /\ state'.stats = (IF "stats" \in pi.has THEN pi.stats ELSE state.stats)
            /\ state'.events = state.events
            /\ state'.piConnected ]_vars

\* C8 witness: a second merge, of a snapshot with an empty extinct list and no
\* sound_shifts or stats, has kept the longer local extinct list, the local
\* shifts, stats and events
C8_Witness ==
  /\ last.op = "sync_ok"
  /\ sync.n = 2
  /\ state.generation = 0
  /\ state.extinct = <<X_remote>>
  /\ state.stats = Remote.stats
  /\ state.sound_shifts # << >>
  /\ state.events # << >>

\* C9: a failed synchronisation attempt leaves words, compounds, generation,
\* extinct, sound_shifts, stats and events as they were before the attempt
C9_FailedSyncKeepsState ==
  [][ last'.op = "sync_fail" =>
        /\ state'.words = state.words
        /\ state'.compounds = state.compounds
        /\ state'.generation = state.generation
        /\ state'.extinct = state.extinct
        /\ state'.sound_shifts = state.sound_shifts
        /\ state'.stats = state.stats
        /\ state'.events = state.events ]_vars

\* C10: after a failed synchronisation attempt piConnected is false
C10_FailedSyncDisconnects == last.op = "sync_fail" => ~state.piConnected

\* C11: every call terminates, so whenever a call is in its birth loop some
\* form the generator can produce is no living key, and an iteration can exit
C11_BirthLoopCanExit ==
  call.pc = "retry" =>
    \E i \in DOMAIN LoopWordDraws : ~Has(state.words, genWord(LoopWordDraws[i]))

Meanings(words) == {words[i].meaning : i \in DOMAIN words}
Catalog == {ALL_CONCEPTS[i] : i \in DOMAIN ALL_CONCEPTS}

\* C12: when the birth step fires it adds exactly one living word, under a
\* form that was no living key, and changes no other; the word has born = the
\* new generation, uses 0, fitness 0.5 and history [form]; its meaning is a
\* catalog concept, and one no living word had whenever the catalog had one
C12_BirthStep ==
  last.op = "evolve" =>
    LET before == last.trace.begin.st.words
        after == last.trace.afterBirth.st.words
        n == Len(before)
    IN  IF EventsOf(ret, "birth") = << >> THEN after = before
        ELSE /\ Len(EventsOf(ret, "birth")) = 1
             /\ Len(after) = n + 1
             /\ SubSeq(after, 1, n) = before
             /\ after[n + 1].word \notin Keys(before)
             /\ after[n + 1].word = ret[1].word
             /\ after[n + 1].born = state.generation
             /\ after[n + 1].uses = 0
             /\ after[n + 1].fitness = 10
             /\ after[n + 1].history = <<after[n + 1].word>>
             /\ after[n + 1].meaning \in Catalog
             /\ Catalog \ Meanings(before) # {} =>
                  after[n + 1].meaning \notin Meanings(before)

\* C12 witness: a birth in a lexicon whose words covered every concept
C12_Witness ==
  /\ last.op = "evolve"
  /\ EventsOf(ret, "birth") # << >>
  /\ Meanings(last.trace.begin.st.words) = Catalog

\* the state st with every missing mapping empty, every missing list empty
\* and every missing counter zero
Defaulted(st) ==
  LET A == st.absent
  IN  [words |-> IF "words" \in A THEN << >> ELSE st.words,
       compounds |-> IF "compounds" \in A THEN << >> ELSE st.compounds,
       generation |-> IF "generation" \in A THEN 0 ELSE st.generation,
       extinct |-> IF "extinct" \in A THEN << >> ELSE st.extinct,
       sound_shifts |-> IF "sound_shifts" \in A THEN << >> ELSE st.sound_shifts,
       events |-> IF "events" \in A THEN << >> ELSE st.events,
       stats |-> [c \in Counters |->
                    IF "stats" \in A \/ c \in A THEN 0 ELSE st.stats[c]],
       piConnected |-> st.piConnected, lastPiSync |-> st.lastPiSync, absent |-> {}]

\* C13: a call on a state with fields missing leaves the state and returns the
\* events that the same call, with the same draws, leaves and returns on the
\* state with the defaults in their place, and no field is missing after it
C13_MissingFieldsDefaulted ==
  last.op = "evolve" =>
    LET R == evolveStep(Defaulted(last.trace.start), last.trace.draws)
    IN  /\ state.absent = {}
        /\ state = R.st
        /\ ret = R.ev

\* C13 witness: a call with a birth on a state loaded without compounds,
\* extinct, sound_shifts, stats and generation
C13_Witness ==
  /\ last.op = "evolve"
  /\ last.trace.start.absent = {"compounds", "extinct", "sound_shifts", "stats", "generation"}
  /\ EventsOf(ret, "birth") # << >>
  /\ state.generation = 1
  /\ state.stats.total_generated = 1

\* the fields a merge replaces
Replaced(st) ==
  <<st.words, st.compounds, st.generation, st.extinct, st.sound_shifts, st.stats>>
\* what lines 255-260 leave in them for the local state st and the body pi
Merged(st, pi) ==
  <<IF "words" \in pi.has THEN pi.words ELSE << >>,
    IF "compounds" \in pi.has THEN pi.compounds ELSE << >>,
    IF "generation" \in pi.has THEN pi.generation ELSE 0,
    IF "extinct" \in pi.has /\ Len(pi.extinct) > Len(st.extinct) THEN pi.extinct
    ELSE st.extinct,
    IF "sound_shifts" \in pi.has /\ Len(pi.sound_shifts) > Len(st.sound_shifts)
    THEN pi.sound_shifts ELSE st.sound_shifts,
    IF "stats" \in pi.has THEN pi.stats ELSE st.stats>>

\* C14: every step of a synchronisation either leaves words, compounds,
\* generation, extinct, sound_shifts and stats all as they were, or, when the
\* parsed body is merged, replaces all six at once by the merge of the body
\* with the local state of that moment; no step changes the event log, so
\* the events of calls made while the fetch was in flight are kept
C14_AtomicMerge ==
  [][ last'.op \in {"sync_start", "sync_response", "sync_fail", "sync_ok"} =>
        /\ state'.events = state.events
        /\ \/ Replaced(state') = Replaced(state)
           \/ /\ sync.pc = "json"
              /\ sync.body.kind = "object"
              /\ Replaced(state') = Merged(state, sync.body) ]_vars

\* C14 witness: a synchronisation has succeeded, an evolveStep call made
\* while it was in flight has left events, and they are in the log
C14_Witness ==
  /\ last.op = "sync_ok"
  /\ calls > sync.since
  /\ ret # << >>
  /\ state.events # << >>
  /\ state.generation = Remote.generation

\* the place of an event type in the order of the steps
Rank(t) == CASE t = "birth" -> 1 [] t = "extinct" -> 2 [] t = "shift" -> 3
             [] t = "compound" -> 4

\* C15: the events a call returns are in the order of the steps: at most one
\* birth, then the extinct events, then at most one shift, then at most one
\* compound; each carries the new generation; and they are the last entries
\* of the event log, in the same order, each with a time stamp
C15_EventOrder ==
  [][ LET n == Len(ret')
          m == Len(state'.events)
      IN  /\ \A i \in 1..n : \A j \in 1..n :
               i < j => Rank(ret'[i].type) <= Rank(ret'[j].type)
          /\ Len(EventsOf(ret', "birth")) <= 1
          /\ Len(EventsOf(ret', "shift")) <= 1
          /\ Len(EventsOf(ret', "compound")) <= 1
          /\ \A i \in 1..n : ret'[i].gen = state'.generation
          /\ n <= 200 =>
               /\ n <= m
               /\ \A i \in 1..n :
                    LET e == state'.events[m - n + i]
                    IN  /\ DOMAIN e = DOMAIN ret'[i] \cup {"time"}
                        /\ \A f \in DOMAIN ret'[i] : e[f] = ret'[i][f] ]_vars

\* C15 witness: a call that returned a birth, an extinction, a shift and a
\* compound
C15_Witness ==
  /\ last.op = "evolve"
  /\ EventsOf(ret, "birth") # << >>
  /\ EventsOf(ret, "extinct") # << >>
  /\ EventsOf(ret, "shift") # << >>
  /\ EventsOf(ret, "compound") # << >>

\* C16: every compound present before a call is present after it under the
\* same key with the same parts, meanings, compound_meaning and born; a call
\* adds at most one compound, under a key that was no compound, and adds one
\* exactly when it returns a compound event, which names that key
C16_CompoundsKept ==
  [][ LET old == state.compounds
          new == state'.compounds
          made == EventsOf(ret', "compound")
      IN  /\ Len(new) >= Len(old)
          /\ SubSeq(new, 1, Len(old)) = old
          /\ Len(new) = Len(old) + Len(made)
          /\ Len(made) <= 1
          /\ made # << >> =>
               /\ new[Len(new)].word = made[1].word
               /\ new[Len(new)].born = state'.generation
               /\ new[Len(new)].word \notin Keys(old) ]_vars

\* C16 witness: a call has added a compound beside two older ones
C16_Witness ==
  /\ last.op = "evolve"
  /\ EventsOf(ret, "compound") # << >>
  /\ Len(state.compounds) >= 3
  /\ state.compounds[1].born < state.compounds[2].born

\* the positions of the words whose uses the usage step raised
Selected(before, after) == {i \in DOMAIN before : after[i].uses # before[i].uses}

\* C17: the usage step selects exactly min(n, max(1, floor(n/3))) of the n
\* words living after the birth step; each selected word gets uses + 1 and
\* fitness min(2.0, fitness + 0.1), every other word is left as it was, and
\* no living word has a fitness above 2.0
C17_UsageStep ==
  last.op = "evolve" =>
    LET before == last.trace.afterBirth.st.words
        after == last.trace.afterUsage.st.words
        n == Len(before)
        bound == IF n \div 3 >= 1 THEN n \div 3 ELSE 1
    IN  /\ Len(after) = n
        /\ Cardinality(Selected(before, after)) = (IF n <= bound THEN n ELSE bound)
        /\ \A i \in 1..n :
             IF i \in Selected(before, after)
             THEN after[i] =
                    [before[i] EXCEPT
                       !.uses = @ + 1,
                       !.fitness = IF @ + 2 >= 40 THEN 40 ELSE @ + 2]
             ELSE after[i] = before[i]
        /\ \A i \in DOMAIN after : after[i].fitness <= 40
        /\ \A i \in DOMAIN state.words : state.words[i].fitness <= 40

\* C17 witness: the usage step selected 26 of 80 words
C17_Witness ==
  /\ last.op = "evolve"
  /\ Len(last.trace.afterBirth.st.words) = 80
  /\ Cardinality(Selected(last.trace.afterBirth.st.words,
                          last.trace.afterUsage.st.words)) = 26

\* the living word of the key w
WordOf(words, w) == words[CHOOSE i \in DOMAIN words : words[i].word = w]

\* C18: the sound-shift step renames one living word exactly when its draw
\* passes, a substitution fires and the new form differs from the old and is
\* no living key: the old key goes, the new key holds the same word with the
\* new form appended to its history, every other word is as it was, one shift
\* record and one shift event are added and total_shifts grows by 1.  In
\* every other case the step changes nothing
C18_ShiftStep ==
  last.op = "evolve" =>
    LET B == last.trace.afterExtinction
        A == last.trace.afterShift
        D == last.trace.draws
        fires == /\ D.shift < 10
                 /\ Len(B.st.words) > 0
                 /\ ShiftPlan(B.st, D).shifted
                 /\ ShiftPlan(B.st, D).newForm # ShiftPlan(B.st, D).target
                 /\ ShiftPlan(B.st, D).newForm \notin Keys(B.st.words)
    IN  IF fires
        THEN LET from == ShiftPlan(B.st, D).target
                 to == ShiftPlan(B.st, D).newForm
                 old == WordOf(B.st.words, from)
                 new == WordOf(A.st.words, to)
             IN  /\ from \in Keys(B.st.words)
                 /\ Keys(A.st.words) = (Keys(B.st.words) \ {from}) \cup {to}
                 /\ Len(A.st.words) = Len(B.st.words)
                 /\ new = [old EXCEPT !.word = to, !.history = Append(old.history, to)]
                 /\ new.history[Len(new.history)] = new.word
                 /\ \A w \in Keys(B.st.words) \ {from} :
                      WordOf(A.st.words, w) = WordOf(B.st.words, w)
                 /\ A.st.sound_shifts =
                      LastN(Append(B.st.sound_shifts,
                                   [gen |-> A.st.generation, from |-> from, to |-> to,
                                    meaning |-> old.meaning]), 30)
                 /\ A.ev = Append(B.ev, [type |-> "shift", gen |-> A.st.generation,
                                         from |-> from, to |-> to,
                                         meaning |-> old.meaning])
                 /\ A.st.stats.total_shifts = B.st.stats.total_shifts + 1
                 /\ A.st = [B.st EXCEPT !.words = A.st.words,
                                        !.sound_shifts = A.st.sound_shifts,
                                        !.stats.total_shifts = @ + 1]
        ELSE A = B

\* C18 witness: the draw passed and a substitution fired, but the new form
\* was a living key, and the step changed nothing
C18_Witness ==
  /\ last.op = "evolve"
  /\ last.shiftDraw
  /\ Len(last.trace.afterExtinction.st.words) > 0
  /\ ShiftPlan(last.trace.afterExtinction.st, last.trace.draws).shifted
  /\ ShiftPlan(last.trace.afterExtinction.st, last.trace.draws).newForm
       \in Keys(last.trace.afterExtinction.st.words)
  /\ last.trace.afterShift = last.trace.afterExtinction

\* the number of events of one type in the events a call returned
CountType(ev, t) == Cardinality({i \in DOMAIN ev : ev[i].type = t})

\* C19: from a seeded state and under calls of evolveStep only, after every
\* call total_generated is the number of living words plus total_extinct, and
\* in each call the four counters grow by exactly the numbers of birth,
\* extinct, shift and compound events the call returned
C19_Bookkeeping ==
  /\ [](state.stats.total_generated = Len(state.words) + state.stats.total_extinct)
  /\ [][ /\ state'.stats.total_generated =
              state.stats.total_generated + CountType(ret', "birth")
         /\ state'.stats.total_extinct =
              state.stats.total_extinct + CountType(ret', "extinct")
         /\ state'.stats.total_shifts =
              state.stats.total_shifts + CountType(ret', "shift")
         /\ state'.stats.total_compounds =
              state.stats.total_compounds + CountType(ret', "compound")
         /\ Len(ret') = CountType(ret', "birth") + CountType(ret', "extinct")
                          + CountType(ret', "shift") + CountType(ret', "compound") ]_vars

\* C19 witness: a call that returned a birth, an extinction, a shift and a
\* compound, after earlier extinctions
C19_Witness ==
  /\ last.op = "evolve"
  /\ CountType(ret, "birth") = 1
  /\ CountType(ret, "extinct") >= 1
  /\ CountType(ret, "shift") = 1
  /\ CountType(ret, "compound") = 1
  /\ state.stats.total_extinct > CountType(ret, "extinct")
  /\ state.stats.total_generated > Len(state.words)

\* C20: under calls of evolveStep only, a word the birth step created in
\* generation g that the usage step never selects (its uses stay 0) is living,
\* under its form or a shifted one, after every call up to generation g + 4
\* and is no living word once the call of generation g + 5 has returned; and
\* every word living after a call has fitness above 0
C20_UnusedLifetime ==
  /\ [](\A i \in DOMAIN state.words : state.words[i].fitness > 0)
  /\ [](\A i \in DOMAIN state.words :
          (state.words[i].born >= 1 /\ state.words[i].uses = 0) =>
            state.generation <= state.words[i].born + 4)
  /\ [][ /\ CountType(ret', "birth") = 1 =>
              \E j \in DOMAIN state'.words :
                /\ state'.words[j].born = state'.generation
                /\ state'.words[j].uses = 0 <=> state'.words[j].fitness = FIT_BIRTH
         /\ \A i \in DOMAIN state.words :
              LET d == state.words[i]
              IN  (d.born >= 1 /\ d.uses = 0 /\ d.word \notin last'.used) =>
                    IF state'.generation <= d.born + 4
                    THEN \E j \in DOMAIN state'.words :
                           /\ SameWord(state'.words[j], d)
                           /\ state'.words[j].uses = 0
                           /\ IsPrefix(d.history, state'.words[j].history)
                    ELSE /\ state'.generation = d.born + 5
                         /\ \A j \in DOMAIN state'.words :
                              state'.words[j].born # d.born ]_vars

\* C20 witness: the call of generation g + 5 removed a word born in
\* generation g that was never used and had been renamed by a sound shift
C20_Witness ==
  /\ last.op = "evolve"
  /\ \E i \in DOMAIN last.doomed :
       /\ last.doomed[i].born >= 1
       /\ last.doomed[i].uses = 0
       /\ state.generation = last.doomed[i].born + 5
       /\ Len(last.doomed[i].history) >= 2
       /\ \A j \in DOMAIN state.words : state.words[j].born # last.doomed[i].born

====
